---- MODULE Spec2Model ----
(***************************************************************************)
(* Model of the IC2 texture migration utilities:                           *)
(*   extract_ic2_textures.py   curated mapping, machine-variant sweep,     *)
(*                             bulk mirror                                 *)
(*   tools/ic2_texture_sync.py normalize_name                              *)
(*   generate_textures.py      get_color                                   *)
(* Paths and names are strings, handled character by character the way     *)
(* pathlib, re and the `in` operator handle them.                          *)
(***************************************************************************)
EXTENDS Integers, Sequences, FiniteSets, TLC

VARIABLES
    pc,                 \* position of the running tool
    javaTree,           \* files under java_root: path -> bytes
    javaDirs,           \* directories under java_root
    bedrockTree,        \* files under bedrock_root: path -> bytes
    bedrockDirs,        \* directories under bedrock_root
    counters,           \* the Counters instance of the current run
    allow_placeholders, \* keyword argument of extract_textures
    skip_bulk,          \* keyword argument of extract_textures
    i,                  \* index of the mapping the current loop is at
    pending,            \* files the current glob/rglob has still to yield
    call,               \* history: arguments and pre-state of the current bulk_copy_pngs call
    swept,              \* history: files copied by copy_machine_variants in this run
    run,                \* history: 1 for the first run of the tool, 2 for the re-run
    initTree,           \* history: bedrockTree when the first run started
    firstTree,          \* history: bedrockTree when the first run ended
    stem,               \* argument of normalize_name
    normalized,         \* first component of normalize_name's result
    cleaned,            \* second component of normalize_name's result
    name,               \* argument of get_color
    color               \* result of get_color

fsVars == <<javaTree, javaDirs, bedrockTree, bedrockDirs, counters,
            allow_placeholders, skip_bulk, i, pending, call, swept, run,
            initTree, firstTree>>
nameVars == <<stem, normalized, cleaned>>
colorVars == <<name, color>>
vars == <<pc, javaTree, javaDirs, bedrockTree, bedrockDirs, counters,
          allow_placeholders, skip_bulk, i, pending, call, swept, run,
          initTree, firstTree, stem, normalized, cleaned, name, color>>

(***************************************************************************)
(* Strings                                                                 *)
(***************************************************************************)
Char(s, k) == SubSeq(s, k, k)

StartsWith(s, p) == Len(s) >= Len(p) /\ SubSeq(s, 1, Len(p)) = p

EndsWith(s, p) == Len(s) >= Len(p) /\ SubSeq(s, Len(s) - Len(p) + 1, Len(s)) = p

\* Python's `k in s` for strings
Contains(s, k) ==
    \E a \in 1..(Len(s) - Len(k) + 1) : SubSeq(s, a, a + Len(k) - 1) = k

Max(S) == CHOOSE x \in S : \A y \in S : y <= x

Min(S) == CHOOSE x \in S : \A y \in S : x <= y

(***************************************************************************)
(* pathlib                                                                 *)
(***************************************************************************)
Slashes(p) == {k \in 1..Len(p) : Char(p, k) = "/"}

\* Path.__truediv__
Join(a, b) == a \o "/" \o b

\* Path.name
PathName(p) == IF Slashes(p) = {} THEN p ELSE SubSeq(p, Max(Slashes(p)) + 1, Len(p))

\* Path.parent
PathParent(p) == IF Slashes(p) = {} THEN "" ELSE SubSeq(p, 1, Max(Slashes(p)) - 1)

\* Path.parents: every proper ancestor of p
PathParents(p) == {SubSeq(p, 1, k - 1) : k \in Slashes(p)}

\* Path.relative_to(root), for p under root
RelativeTo(p, root) == SubSeq(p, Len(root) + 2, Len(p))

\* Path.glob("*.png"): the PNG files directly in directory d
Glob(tree, d) ==
    {f \in DOMAIN tree : PathParent(f) = d /\ EndsWith(PathName(f), ".png")}

\* Path.rglob("*.png"): the PNG files anywhere below directory d
RGlob(tree, d) ==
    {f \in DOMAIN tree : StartsWith(f, d \o "/") /\ EndsWith(PathName(f), ".png")}

\* Path.mkdir(parents=True, exist_ok=True) on the parent of file p
MkdirParents(dirs, p) == dirs \cup PathParents(p)

(***************************************************************************)
(* extract_ic2_textures.py: constants and tables                           *)
(***************************************************************************)
java_root == "java"

bedrock_root == "bedrock"

PLACEHOLDER_PNG_BYTES == "\\x89PNG 1x1 magenta"

RAW_TEXTURE_MAPPING == <<
    <<"blocks/generator/electric/generator_front.png", "blocks/generator/generator.png">>,
    <<"blocks/generator/electric/geo_generator_front.png", "blocks/generator/geo_generator.png">>,
    <<"blocks/generator/electric/solar_generator_top.png", "blocks/generator/solar.png">>,
    <<"blocks/generator/electric/wind_generator_front.png", "blocks/generator/wind.png">>,
    <<"blocks/generator/electric/water_generator_front.png", "blocks/generator/water.png">>,
    <<"blocks/machine/processing/basic/macerator_front_active.png", "blocks/machine/macerator_front.png">>,
    <<"blocks/machine/processing/basic/compressor_front_active.png", "blocks/machine/compressor_front.png">>,
    <<"blocks/machine/processing/basic/extractor_front_active.png", "blocks/machine/extractor_front.png">>,
    <<"blocks/machine/processing/basic/recycler_front.png", "blocks/machine/recycler_front.png">>,
    <<"blocks/machine.png", "blocks/general/machine/sides.png">>,
    <<"blocks/machine_top.png", "blocks/general/machine/top.png">>,
    <<"blocks/machine_bottom.png", "blocks/general/machine/bottom.png">>,
    <<"blocks/resource/tin_ore.png", "blocks/ore/tin_ore.png">>,
    <<"blocks/resource/lead_ore.png", "blocks/ore/lead_ore.png">>,
    <<"blocks/resource/uranium_ore.png", "blocks/ore/uranium_ore.png">>,
    <<"blocks/resource/copper_ore.png", "blocks/ore/copper_ore.png">>,
    <<"blocks/resource/tin_ore.png", "blocks/ore/deepslate_tin_ore.png">>,
    <<"blocks/resource/lead_ore.png", "blocks/ore/deepslate_lead_ore.png">>,
    <<"blocks/resource/uranium_ore.png", "blocks/ore/deepslate_uranium_ore.png">>,
    <<"blocks/resource/copper_ore.png", "blocks/ore/deepslate_copper_ore.png">>,
    <<"blocks/resource/tin_block.png", "blocks/ore/ingot_block/tin_block.png">>,
    <<"blocks/resource/lead_block.png", "blocks/ore/ingot_block/lead_block.png">>,
    <<"blocks/resource/bronze_block.png", "blocks/ore/ingot_block/bronze_block.png">>,
    <<"blocks/resource/steel_block.png", "blocks/ore/ingot_block/steel_block.png">>,
    <<"blocks/resource/uranium_block.png", "blocks/ore/ingot_block/uranium_bottomtop.png">> >>

RAW_ITEM_MAPPING == <<
    <<"tool/electric/drill.png", "items/tool/general/drill.png">>,
    <<"tool/electric/diamond_drill.png", "items/tool/general/diamond_drill.png">>,
    <<"tool/electric/chainsaw.png", "items/tool/general/chainsaw.png">>,
    <<"tool/electric/electric_wrench.png", "items/tool/general/electric_wrench.png">>,
    <<"armor/nano_helmet.png", "items/armor/nanosuit_helmet.png">>,
    <<"armor/nano_chestplate.png", "items/armor/nanosuit_chestplate.png">>,
    <<"armor/nano_leggings.png", "items/armor/nanosuit_leggings.png">>,
    <<"armor/nano_boots.png", "items/armor/nanosuit_boots.png">>,
    <<"armor/quantum_helmet.png", "items/armor/quantumsuit_helmet.png">>,
    <<"armor/quantum_chestplate.png", "items/armor/quantumsuit_chestplate.png">>,
    <<"armor/quantum_leggings.png", "items/armor/quantumsuit_leggings.png">>,
    <<"armor/quantum_boots.png", "items/armor/quantumsuit_boots.png">> >>

\* Mapping dataclass
Mapping(source, destination, label) ==
    [source |-> source, destination |-> destination, label |-> label]

\* texture_mappings built through a dict keyed by source: a later row shadows an earlier one
texture_mappings_keyed ==
    [k \in 1..Len(RAW_TEXTURE_MAPPING) |->
        LET last == Max({j \in 1..Len(RAW_TEXTURE_MAPPING) :
                            RAW_TEXTURE_MAPPING[j][1] = RAW_TEXTURE_MAPPING[k][1]})
        IN  Mapping(Join(java_root, RAW_TEXTURE_MAPPING[k][1]),
                    Join(bedrock_root, RAW_TEXTURE_MAPPING[last][2]),
                    RAW_TEXTURE_MAPPING[k][1])]

\* build_mappings(java_root, bedrock_root)[0]
texture_mappings ==
    [k \in 1..Len(RAW_TEXTURE_MAPPING) |->
        Mapping(Join(java_root, RAW_TEXTURE_MAPPING[k][1]),
                Join(bedrock_root, RAW_TEXTURE_MAPPING[k][2]),
                RAW_TEXTURE_MAPPING[k][1])]

\* build_mappings(java_root, bedrock_root)[1]
item_mappings ==
    [k \in 1..Len(RAW_ITEM_MAPPING) |->
        Mapping(Join(Join(java_root, "items"), RAW_ITEM_MAPPING[k][1]),
                Join(bedrock_root, RAW_ITEM_MAPPING[k][2]),
                "items/" \o RAW_ITEM_MAPPING[k][1])]

\* Counters()
NewCounters ==
    [mapped |-> 0, placeholders |-> 0, bulk |-> 0,
     skipped_existing |-> 0, missing_no_placeholder |-> 0]

\* machine_dir and wanted of copy_machine_variants
machine_dir == Join(Join(Join(Join(java_root, "blocks"), "machine"), "processing"), "basic")

wanted == <<"macerator", "compressor", "extractor", "recycler">>

(***************************************************************************)
(* extract_ic2_textures.py: operations on the destination tree             *)
(***************************************************************************)
\* Path.write_bytes / shutil.copy2 into path p: creates or replaces the file
WriteFile(tree, p, bytes) ==
    [q \in (DOMAIN tree) \cup {p} |-> IF q = p THEN bytes ELSE tree[q]]

\* write_placeholder that creates the file without the placeholder bytes
write_placeholder_empty(tree, dirs, target) ==
    [tree |-> WriteFile(tree, target, ""),
     dirs |-> MkdirParents(dirs, target)]

\* write_placeholder(target, label)
write_placeholder(tree, dirs, target) ==
    [tree |-> WriteFile(tree, target, PLACEHOLDER_PNG_BYTES),
     dirs |-> MkdirParents(dirs, target)]

\* copy_with_placeholder that tests the source before the destination
copy_with_placeholder_source_first(mapping, src, tree, dirs, c, allow_placeholder) ==
    LET destination == mapping.destination
        source == mapping.source
    IN  IF source \in DOMAIN src
          THEN [tree |-> WriteFile(tree, destination, src[source]),
                dirs |-> MkdirParents(dirs, destination),
                counters |-> [c EXCEPT !.mapped = @ + 1]]
        ELSE IF destination \in DOMAIN tree
          THEN [tree |-> tree, dirs |-> dirs,
                counters |-> [c EXCEPT !.skipped_existing = @ + 1]]
        ELSE IF allow_placeholder
          THEN LET w == write_placeholder(tree, dirs, destination)
               IN  [tree |-> w.tree, dirs |-> w.dirs,
                    counters |-> [c EXCEPT !.placeholders = @ + 1]]
        ELSE [tree |-> tree, dirs |-> dirs,
              counters |-> [c EXCEPT !.missing_no_placeholder = @ + 1]]

\* copy_with_placeholder(mapping, counters, allow_placeholder, bedrock_root)
copy_with_placeholder(mapping, src, tree, dirs, c, allow_placeholder) ==
    LET destination == mapping.destination
        source == mapping.source
    IN  IF destination \in DOMAIN tree
          THEN [tree |-> tree, dirs |-> dirs,
                counters |-> [c EXCEPT !.skipped_existing = @ + 1]]
        ELSE IF source \in DOMAIN src
          THEN [tree |-> WriteFile(tree, destination, src[source]),
                dirs |-> MkdirParents(dirs, destination),
                counters |-> [c EXCEPT !.mapped = @ + 1]]
        ELSE IF allow_placeholder
          THEN LET w == write_placeholder(tree, dirs, destination)
               IN  [tree |-> w.tree, dirs |-> w.dirs,
                    counters |-> [c EXCEPT !.placeholders = @ + 1]]
        ELSE [tree |-> tree, dirs |-> dirs,
              counters |-> [c EXCEPT !.missing_no_placeholder = @ + 1]]

\* the body of the loop of copy_machine_variants, for one file of the glob
copy_machine_variant(png_file, src, tree, dirs, c) ==
    IF ~ \E k \in 1..Len(wanted) : Contains(PathName(png_file), wanted[k])
      THEN [tree |-> tree, dirs |-> dirs, counters |-> c, copied |-> FALSE]
    ELSE LET destination ==
                 Join(Join(Join(bedrock_root, "blocks"), "machine"), PathName(png_file))
         IN  [tree |-> WriteFile(tree, destination, src[png_file]),
              dirs |-> MkdirParents(dirs, destination),
              counters |-> [c EXCEPT !.mapped = @ + 1],
              copied |-> TRUE]

\* bulk_copy_pngs without the destination.exists() test
bulk_copy_png_overwrite(png, source_root, target_root, src, tree, dirs, c) ==
    LET relative == RelativeTo(png, source_root)
        destination == Join(target_root, relative)
    IN  [tree |-> WriteFile(tree, destination, src[png]),
         dirs |-> MkdirParents(dirs, destination),
         counters |-> [c EXCEPT !.bulk = @ + 1]]

\* bulk_copy_pngs that flattens the tree: destination = target_root / png.name
bulk_copy_png_flat(png, source_root, target_root, src, tree, dirs, c) ==
    LET destination == Join(target_root, PathName(png))
    IN  IF destination \in DOMAIN tree
          THEN [tree |-> tree, dirs |-> dirs,
                counters |-> [c EXCEPT !.skipped_existing = @ + 1]]
        ELSE [tree |-> WriteFile(tree, destination, src[png]),
              dirs |-> MkdirParents(dirs, destination),
              counters |-> [c EXCEPT !.bulk = @ + 1]]

\* bulk_copy_pngs that skips an existing destination without counting it
bulk_copy_png_uncounted_skip(png, source_root, target_root, src, tree, dirs, c) ==
    LET relative == RelativeTo(png, source_root)
        destination == Join(target_root, relative)
    IN  IF destination \in DOMAIN tree
          THEN [tree |-> tree, dirs |-> dirs, counters |-> c]
        ELSE [tree |-> WriteFile(tree, destination, src[png]),
              dirs |-> MkdirParents(dirs, destination),
              counters |-> [c EXCEPT !.bulk = @ + 1]]

\* the body of the loop of bulk_copy_pngs, for one file of the rglob
bulk_copy_png(png, source_root, target_root, src, tree, dirs, c) ==
    LET relative == RelativeTo(png, source_root)
        destination == Join(target_root, relative)
    IN  IF destination \in DOMAIN tree
          THEN [tree |-> tree, dirs |-> dirs,
                counters |-> [c EXCEPT !.skipped_existing = @ + 1]]
        ELSE [tree |-> WriteFile(tree, destination, src[png]),
              dirs |-> MkdirParents(dirs, destination),
              counters |-> [c EXCEPT !.bulk = @ + 1]]

(***************************************************************************)
(* Bounds: the source and destination trees a run starts from              *)
(***************************************************************************)
MaxJavaFiles == 2

MaxBedrockFiles == 2

\* files that may exist under java_root when the tool starts
JavaCandidates ==
    {"java/blocks/resource/tin_ore.png",
     "java/blocks/machine/processing/basic/macerator_front_active.png",
     "java/blocks/machine/processing/basic/macerator_front.png",
     "java/blocks/machine/processing/basic/furnace_front.png",
     "java/blocks/ore/tin_ore.png",
     "java/blocks/notes.txt",
     "java/items/tool/electric/drill.png"}

\* files that may exist under bedrock_root when the tool starts
BedrockCandidates ==
    {"bedrock/blocks/ore/tin_ore.png",
     "bedrock/blocks/machine/macerator_front.png",
     "bedrock/blocks/machine/macerator_front_active.png",
     "bedrock/blocks/resource/tin_ore.png",
     "bedrock/blocks/custom.png",
     "bedrock/items/tool/general/drill.png",
     "bedrock/items/tool/electric/drill.png"}

\* directories that may exist under java_root without holding any file
EmptyJavaDirs == {machine_dir, Join(java_root, "blocks"), Join(java_root, "items")}

\* the bytes of the source file at path p, and of a file found in the destination
SourceBytes(p) == "bytes of " \o p

SentinelBytes == "sentinel"

DirsOf(files, root) == {root} \cup UNION {PathParents(f) : f \in files}

NoCall ==
    [source_root |-> "", target_root |-> "", exists |-> FALSE,
     tree |-> <<>>, dirs |-> {}, counters |-> NewCounters]

(***************************************************************************)
(* extract_textures                                                        *)
(***************************************************************************)
IdleNames == stem = "" /\ normalized = "" /\ cleaned = ""

IdleColors == name = "" /\ color = <<>>

Init ==
    /\ pc = "textures"
    /\ \E S \in SUBSET JavaCandidates :
         /\ Cardinality(S) <= MaxJavaFiles
         /\ javaTree = [p \in S |-> SourceBytes(p)]
         /\ \E extra \in {{}, EmptyJavaDirs} :
              javaDirs = DirsOf(S \cup {Join(d, "x") : d \in extra}, java_root)
    /\ \E D \in SUBSET BedrockCandidates :
         /\ Cardinality(D) <= MaxBedrockFiles
         /\ bedrockTree = [p \in D |-> SentinelBytes]
         /\ bedrockDirs = DirsOf(D, bedrock_root)
         /\ initTree = [p \in D |-> SentinelBytes]
    /\ counters = NewCounters
    /\ allow_placeholders \in BOOLEAN
    /\ skip_bulk \in BOOLEAN
    /\ i = 1
    /\ pending = {}
    /\ call = NoCall
    /\ swept = {}
    /\ run = 1
    /\ firstTree = <<>>
    /\ IdleNames
    /\ IdleColors

\* for mapping in texture_mappings: copy_with_placeholder(...)
CopyTexture ==
    /\ pc = "textures"
    /\ i <= Len(texture_mappings)
    /\ LET r == copy_with_placeholder(texture_mappings[i], javaTree, bedrockTree,
                                      bedrockDirs, counters, allow_placeholders)
       IN  /\ bedrockTree' = r.tree
           /\ bedrockDirs' = r.dirs
           /\ counters' = r.counters
    /\ i' = i + 1
    /\ UNCHANGED <<pc, javaTree, javaDirs, allow_placeholders, skip_bulk, pending,
                   call, swept, run, initTree, firstTree, nameVars, colorVars>>

\* copy_machine_variants: the machine_dir.exists() test and the glob
EnterVariants ==
    /\ pc = "textures"
    /\ i > Len(texture_mappings)
    /\ pc' = "variants"
    /\ pending' = IF machine_dir \in javaDirs THEN Glob(javaTree, machine_dir) ELSE {}
    /\ UNCHANGED <<javaTree, javaDirs, bedrockTree, bedrockDirs, counters,
                   allow_placeholders, skip_bulk, i, call, swept, run, initTree,
                   firstTree, nameVars, colorVars>>

\* copy_machine_variants: one iteration of the loop, in the order the glob yields
CopyMachineVariant ==
    /\ pc = "variants"
    /\ \E png_file \in pending :
         LET r == copy_machine_variant(png_file, javaTree, bedrockTree, bedrockDirs, counters)
         IN  /\ bedrockTree' = r.tree
             /\ bedrockDirs' = r.dirs
             /\ counters' = r.counters
             /\ swept' = IF r.copied THEN swept \cup {png_file} ELSE swept
             /\ pending' = pending \ {png_file}
    /\ UNCHANGED <<pc, javaTree, javaDirs, allow_placeholders, skip_bulk, i, call,
                   run, initTree, firstTree, nameVars, colorVars>>

\* copy_machine_variants returns; the loop over item_mappings starts
EnterItems ==
    /\ pc = "variants"
    /\ pending = {}
    /\ pc' = "items"
    /\ i' = 1
    /\ UNCHANGED <<javaTree, javaDirs, bedrockTree, bedrockDirs, counters,
                   allow_placeholders, skip_bulk, pending, call, swept, run,
                   initTree, firstTree, nameVars, colorVars>>

\* for mapping in item_mappings: copy_with_placeholder(...)
CopyItem ==
    /\ pc = "items"
    /\ i <= Len(item_mappings)
    /\ LET r == copy_with_placeholder(item_mappings[i], javaTree, bedrockTree,
                                      bedrockDirs, counters, allow_placeholders)
       IN  /\ bedrockTree' = r.tree
           /\ bedrockDirs' = r.dirs
           /\ counters' = r.counters
    /\ i' = i + 1
    /\ UNCHANGED <<pc, javaTree, javaDirs, allow_placeholders, skip_bulk, pending,
                   call, swept, run, initTree, firstTree, nameVars, colorVars>>

\* the entry of bulk_copy_pngs(source_root, target_root, counters)
BulkCall(source_root, target_root) ==
    /\ call' = [source_root |-> source_root, target_root |-> target_root,
                exists |-> source_root \in javaDirs,
                tree |-> bedrockTree, dirs |-> bedrockDirs, counters |-> counters]
    /\ pending' = IF source_root \in javaDirs THEN RGlob(javaTree, source_root) ELSE {}

\* if not skip_bulk is false: extract_textures returns after the item mappings
SkipBulk ==
    /\ pc = "items"
    /\ i > Len(item_mappings)
    /\ skip_bulk
    /\ pc' = "done"
    /\ UNCHANGED <<javaTree, javaDirs, bedrockTree, bedrockDirs, counters,
                   allow_placeholders, skip_bulk, i, pending, call, swept, run,
                   initTree, firstTree, nameVars, colorVars>>

\* bulk_copy_pngs(java_root / "blocks", bedrock_root / "blocks", counters) is called
EnterBulkBlocks ==
    /\ pc = "items"
    /\ i > Len(item_mappings)
    /\ ~ skip_bulk
    /\ pc' = "bulk_blocks"
    /\ BulkCall(Join(java_root, "blocks"), Join(bedrock_root, "blocks"))
    /\ UNCHANGED <<javaTree, javaDirs, bedrockTree, bedrockDirs, counters,
                   allow_placeholders, skip_bulk, i, swept, run, initTree,
                   firstTree, nameVars, colorVars>>

\* bulk_copy_pngs: one iteration of the loop, in the order the rglob yields
BulkCopyPng ==
    /\ pc \in {"bulk_blocks", "bulk_items"}
    /\ \E png \in pending :
         LET r == bulk_copy_png(png, call.source_root, call.target_root, javaTree,
                                bedrockTree, bedrockDirs, counters)
         IN  /\ bedrockTree' = r.tree
             /\ bedrockDirs' = r.dirs
             /\ counters' = r.counters
             /\ pending' = pending \ {png}
    /\ UNCHANGED <<pc, javaTree, javaDirs, allow_placeholders, skip_bulk, i, call,
                   swept, run, initTree, firstTree, nameVars, colorVars>>

\* bulk_copy_pngs(java_root / "items", bedrock_root / "items", counters) is called
EnterBulkItems ==
    /\ pc = "bulk_blocks"
    /\ pending = {}
    /\ pc' = "bulk_items"
    /\ BulkCall(Join(java_root, "items"), Join(bedrock_root, "items"))
    /\ UNCHANGED <<javaTree, javaDirs, bedrockTree, bedrockDirs, counters,
                   allow_placeholders, skip_bulk, i, swept, run, initTree,
                   firstTree, nameVars, colorVars>>

\* the second bulk_copy_pngs returns; extract_textures returns counters
Finish ==
    /\ pc = "bulk_items"
    /\ pending = {}
    /\ pc' = "done"
    /\ UNCHANGED <<javaTree, javaDirs, bedrockTree, bedrockDirs, counters,
                   allow_placeholders, skip_bulk, i, pending, call, swept, run,
                   initTree, firstTree, nameVars, colorVars>>

Next ==
    \/ CopyTexture
    \/ EnterVariants
    \/ CopyMachineVariant
    \/ EnterItems
    \/ CopyItem
    \/ SkipBulk
    \/ EnterBulkBlocks
    \/ BulkCopyPng
    \/ EnterBulkItems
    \/ Finish

Spec == Init /\ [][Next]_vars

TypeOK ==
    /\ pc \in {"textures", "variants", "items", "bulk_blocks", "bulk_items", "done"}
    /\ \A p \in DOMAIN bedrockTree : PathParents(p) \subseteq bedrockDirs

(***************************************************************************)
(* The tool run a second time on the trees the first run left              *)
(* (mapping pass only: skip_bulk is set)                                   *)
(***************************************************************************)
InitTwice == Init /\ skip_bulk

\* main() is invoked again with the same arguments after the first run returned
Rerun ==
    /\ pc = "done"
    /\ run = 1
    /\ run' = 2
    /\ firstTree' = bedrockTree
    /\ counters' = NewCounters
    /\ pc' = "textures"
    /\ i' = 1
    /\ swept' = {}
    /\ UNCHANGED <<javaTree, javaDirs, bedrockTree, bedrockDirs, allow_placeholders,
                   skip_bulk, pending, call, initTree, nameVars, colorVars>>

NextTwice ==
    \/ CopyTexture
    \/ EnterVariants
    \/ CopyMachineVariant
    \/ EnterItems
    \/ CopyItem
    \/ SkipBulk
    \/ Rerun

SpecTwice == InitTwice /\ [][NextTwice]_vars

(***************************************************************************)
(* Properties of extract_textures                                          *)
(***************************************************************************)
\* the mapping a copy_with_placeholder step is applied to
CurrentMapping == IF pc = "textures" THEN texture_mappings[i] ELSE item_mappings[i]

\* this step is one call of copy_with_placeholder
IsMappingStep == pc \in {"textures", "items"} /\ i' = i + 1

\* every file of the tree keeps its bytes over the step
FilesKept == \A p \in DOMAIN bedrockTree :
                 p \in DOMAIN bedrockTree' /\ bedrockTree'[p] = bedrockTree[p]

\* the step creates exactly the file p, with the given bytes
CreatesOnly(p, bytes) ==
    /\ DOMAIN bedrockTree' = (DOMAIN bedrockTree) \cup {p}
    /\ p \notin DOMAIN bedrockTree
    /\ bedrockTree'[p] = bytes
    /\ FilesKept

\* the step adds one to counter f and leaves the other counters alone
CountsOne(f) == counters' = [counters EXCEPT ![f] = @ + 1]

\* C1: no step of a run writes to a destination path that exists at that
\* step: every file of the destination tree keeps its bytes until the run
\* ends and none is deleted.
C1_NeverOverwrites == [][FilesKept]_vars

\* C2: after a second mapping pass on unchanged sources the destination tree
\* is the one the first pass left, and the second pass counts no mapped and
\* no placeholder entry: every curated entry is counted skipped-existing.
C2_SecondRunIdempotent ==
    (pc = "done" /\ run = 2) =>
        /\ bedrockTree = firstTree
        /\ counters.mapped = 0
        /\ counters.placeholders = 0
        /\ counters.skipped_existing = Len(texture_mappings) + Len(item_mappings)

\* C3: copy_with_placeholder decides by the first rule that matches: an
\* existing destination is skipped and nothing is written whatever the source
\* and allow_placeholder are; otherwise an existing source is copied to the
\* destination and counted mapped; placeholder and missing are counted only
\* when destination and source are both absent.
C3_Precedence ==
    [][IsMappingStep =>
         LET m == CurrentMapping
         IN  /\ m.destination \in DOMAIN bedrockTree =>
                  /\ bedrockTree' = bedrockTree
                  /\ bedrockDirs' = bedrockDirs
                  /\ CountsOne("skipped_existing")
             /\ (m.destination \notin DOMAIN bedrockTree /\ m.source \in DOMAIN javaTree) =>
                  /\ CreatesOnly(m.destination, javaTree[m.source])
                  /\ CountsOne("mapped")
             /\ (\/ counters'.placeholders # counters.placeholders
                 \/ counters'.missing_no_placeholder # counters.missing_no_placeholder) =>
                  /\ m.destination \notin DOMAIN bedrockTree
                  /\ m.source \notin DOMAIN javaTree]_vars

\* C3 witness: the tin ore row found its destination and its source both
\* present, with placeholders enabled, and counted it skipped-existing
C3_Witness ==
    /\ pc = "textures"
    /\ i = 14
    /\ allow_placeholders
    /\ texture_mappings[13].source \in DOMAIN javaTree
    /\ texture_mappings[13].destination \in DOMAIN initTree
    /\ bedrockTree[texture_mappings[13].destination] = SentinelBytes
    /\ counters.skipped_existing = 1

\* C4: for an entry whose source and destination are both absent, with
\* allow_placeholder the destination is created holding PLACEHOLDER_PNG_BYTES
\* and one placeholder is counted; without it no file and no directory is
\* created, one missing-no-placeholder is counted; either way the loop goes on
\* to the next entry.
C4_PlaceholderFallback ==
    [][(/\ IsMappingStep
        /\ CurrentMapping.destination \notin DOMAIN bedrockTree
        /\ CurrentMapping.source \notin DOMAIN javaTree) =>
         /\ allow_placeholders =>
              /\ CreatesOnly(CurrentMapping.destination, PLACEHOLDER_PNG_BYTES)
              /\ PathParents(CurrentMapping.destination) \subseteq bedrockDirs'
              /\ CountsOne("placeholders")
         /\ ~ allow_placeholders =>
              /\ bedrockTree' = bedrockTree
              /\ bedrockDirs' = bedrockDirs
              /\ CountsOne("missing_no_placeholder")
         /\ pc' = pc]_vars

\* C4 witness: the run is over, one entry got a placeholder
C4_Witness ==
    /\ pc = "done"
    /\ allow_placeholders
    /\ counters.placeholders > 0
    /\ \E k \in 1..Len(item_mappings) :
         /\ item_mappings[k].source \notin DOMAIN javaTree
         /\ item_mappings[k].destination \notin DOMAIN initTree
         /\ bedrockTree[item_mappings[k].destination] = PLACEHOLDER_PNG_BYTES

\* the pairs of rows of the static table with one source and two destinations
FanOutRows ==
    {r \in (1..Len(texture_mappings)) \X (1..Len(texture_mappings)) :
        /\ r[1] < r[2]
        /\ RAW_TEXTURE_MAPPING[r[1]][1] = RAW_TEXTURE_MAPPING[r[2]][1]
        /\ RAW_TEXTURE_MAPPING[r[1]][2] # RAW_TEXTURE_MAPPING[r[2]][2]}

\* C5: when one source is mapped to two destinations and exists, a run from
\* an empty destination tree ends with both destinations holding the bytes
\* of the source.
C5_FanOut ==
    (pc = "done" /\ run = 1 /\ DOMAIN initTree = {}) =>
        \A r \in FanOutRows :
            LET source == Join(java_root, RAW_TEXTURE_MAPPING[r[1]][1])
                first == Join(bedrock_root, RAW_TEXTURE_MAPPING[r[1]][2])
                second == Join(bedrock_root, RAW_TEXTURE_MAPPING[r[2]][2])
            IN  source \in DOMAIN javaTree =>
                  /\ first \in DOMAIN bedrockTree
                  /\ second \in DOMAIN bedrockTree
                  /\ bedrockTree[first] = javaTree[source]
                  /\ bedrockTree[second] = javaTree[source]

\* C5 witness: tin_ore.png went to tin_ore.png and to deepslate_tin_ore.png
C5_Witness ==
    /\ pc = "done"
    /\ DOMAIN initTree = {}
    /\ <<13, 17>> \in FanOutRows
    /\ "java/blocks/resource/tin_ore.png" \in DOMAIN javaTree
    /\ "bedrock/blocks/ore/tin_ore.png" \in DOMAIN bedrockTree
    /\ "bedrock/blocks/ore/deepslate_tin_ore.png" \in DOMAIN bedrockTree

\* the PNG files under the source_root of the current bulk_copy_pngs call
CallPngs ==
    {f \in DOMAIN javaTree :
        /\ StartsWith(f, call.source_root \o "/")
        /\ EndsWith(f, ".png")}

\* the path of source file f mirrored under the target_root of the current call
Mirrored(f) == call.target_root \o SubSeq(f, Len(call.source_root) + 1, Len(f))

\* bulk_copy_pngs has returned and the next statement has not run yet
BulkReturned == pc \in {"bulk_blocks", "bulk_items"} /\ pending = {}

\* C6: bulk_copy_pngs never overwrites: a PNG whose mirrored destination
\* existed before the call leaves that destination with its previous bytes,
\* adds exactly one to skipped_existing and nothing to bulk.
C6_BulkNeverOverwrites ==
    BulkReturned =>
        LET existing == {f \in CallPngs : Mirrored(f) \in DOMAIN call.tree}
        IN  /\ \A f \in existing :
                 /\ Mirrored(f) \in DOMAIN bedrockTree
                 /\ bedrockTree[Mirrored(f)] = call.tree[Mirrored(f)]
            /\ counters.skipped_existing =
                   call.counters.skipped_existing + Cardinality(existing)
            /\ counters.bulk =
                   call.counters.bulk + Cardinality(CallPngs \ existing)

\* C6 witness: the call met a destination holding other bytes than the source
\* file of the same relative path, and has returned
C6_Witness ==
    /\ BulkReturned
    /\ \E f \in CallPngs :
         /\ Mirrored(f) \in DOMAIN call.tree
         /\ call.tree[Mirrored(f)] # javaTree[f]
         /\ bedrockTree[Mirrored(f)] = SentinelBytes
    /\ counters.skipped_existing > call.counters.skipped_existing

\* C7: with allow_placeholders a finished run leaves every destination of the
\* curated texture and item tables in place, and each of them that the run
\* created holds the bytes of its mapped source when that source exists and
\* the placeholder bytes otherwise.
C7_CompleteWithPlaceholders ==
    (pc = "done" /\ run = 1 /\ allow_placeholders) =>
        \A m \in {texture_mappings[k] : k \in 1..Len(texture_mappings)}
                 \cup {item_mappings[k] : k \in 1..Len(item_mappings)} :
            /\ m.destination \in DOMAIN bedrockTree
            /\ m.destination \notin DOMAIN initTree =>
                 bedrockTree[m.destination] =
                     IF m.source \in DOMAIN javaTree THEN javaTree[m.source]
                                                     ELSE PLACEHOLDER_PNG_BYTES

\* C10: bulk_copy_pngs mirrors the tree: every PNG under an existing
\* source_root has its mirrored file, holding the source's bytes when the call
\* created it; no other path is written; bulk and skipped_existing grow
\* together by the number of PNG files; a source_root that does not exist
\* leaves tree, directories and counters as they were.
C10_BulkMirrors ==
    BulkReturned =>
        /\ call.exists =>
             /\ \A f \in CallPngs :
                  /\ Mirrored(f) \in DOMAIN bedrockTree
                  /\ Mirrored(f) \notin DOMAIN call.tree =>
                       bedrockTree[Mirrored(f)] = javaTree[f]
             /\ \A p \in DOMAIN bedrockTree :
                  p \notin {Mirrored(f) : f \in CallPngs} =>
                      p \in DOMAIN call.tree /\ bedrockTree[p] = call.tree[p]
             /\ \A p \in DOMAIN call.tree :
                  p \in DOMAIN bedrockTree /\ bedrockTree[p] = call.tree[p]
             /\ (counters.bulk - call.counters.bulk)
                  + (counters.skipped_existing - call.counters.skipped_existing)
                  = Cardinality(CallPngs)
        /\ ~ call.exists =>
             /\ bedrockTree = call.tree
             /\ bedrockDirs = call.dirs
             /\ counters = call.counters

\* C10 witness: the call on blocks/ created a mirrored file below a new
\* directory; the call on items/ found no source_root and has returned
C10_Witness ==
    /\ pc = "bulk_items"
    /\ pending = {}
    /\ ~ call.exists
    /\ counters.bulk > 0
    /\ "bedrock/blocks/resource/tin_ore.png" \in DOMAIN bedrockTree
    /\ "bedrock/blocks/resource/tin_ore.png" \notin DOMAIN initTree
    /\ bedrockTree["bedrock/blocks/resource/tin_ore.png"]
           = javaTree["java/blocks/resource/tin_ore.png"]

(***************************************************************************)
(* tools/ic2_texture_sync.py: normalize_name                               *)
(***************************************************************************)
UPPER == "ABCDEFGHIJKLMNOPQRSTUVWXYZ"

LOWER == "abcdefghijklmnopqrstuvwxyz"

DIGITS == "0123456789"

\* c is one of the characters of alphabet
IsOneOf(c, alphabet) == \E k \in 1..Len(alphabet) : Char(alphabet, k) = c

\* str.lower() on one character
LowerChar(c) ==
    IF IsOneOf(c, UPPER)
      THEN Char(LOWER, CHOOSE k \in 1..Len(UPPER) : Char(UPPER, k) = c)
      ELSE c

RECURSIVE Lower(_)
\* str.lower()
Lower(s) == IF s = "" THEN "" ELSE LowerChar(Head(s)) \o Lower(Tail(s))

\* the character class [A-Za-z0-9]
IsAlnum(c) == IsOneOf(c, UPPER) \/ IsOneOf(c, LOWER) \/ IsOneOf(c, DIGITS)

RECURSIVE SkipNonAlnum(_)
\* the rest of s after the run [^A-Za-z0-9]* it starts with
SkipNonAlnum(s) ==
    IF s = "" \/ IsAlnum(Head(s)) THEN s ELSE SkipNonAlnum(Tail(s))

RECURSIVE SubNonAlnum(_)
\* re.sub(r"[^A-Za-z0-9]+", "_", s)
SubNonAlnum(s) ==
    IF s = "" THEN ""
    ELSE IF IsAlnum(Head(s)) THEN Head(s) \o SubNonAlnum(Tail(s))
    ELSE "_" \o SubNonAlnum(SkipNonAlnum(Tail(s)))

\* re.sub(r"^(item|block)_", "", s, flags=re.IGNORECASE)
SubItemBlockPrefix(s) ==
    IF StartsWith(Lower(s), "item_") THEN SubSeq(s, 6, Len(s))
    ELSE IF StartsWith(Lower(s), "block_") THEN SubSeq(s, 7, Len(s))
    ELSE s

RECURSIVE SubCamel(_)
\* re.sub(r"([a-z0-9])([A-Z])", r"\1_\2", s)
SubCamel(s) ==
    IF Len(s) < 2 THEN s
    ELSE IF /\ IsOneOf(Char(s, 1), LOWER) \/ IsOneOf(Char(s, 1), DIGITS)
            /\ IsOneOf(Char(s, 2), UPPER)
      THEN Char(s, 1) \o "_" \o Char(s, 2) \o SubCamel(SubSeq(s, 3, Len(s)))
    ELSE Head(s) \o SubCamel(Tail(s))

RECURSIVE ReplaceDoubleUnderscore(_)
\* s.replace("__", "_")
ReplaceDoubleUnderscore(s) ==
    IF Len(s) < 2 THEN s
    ELSE IF SubSeq(s, 1, 2) = "__"
      THEN "_" \o ReplaceDoubleUnderscore(SubSeq(s, 3, Len(s)))
    ELSE Head(s) \o ReplaceDoubleUnderscore(Tail(s))

\* camel_to_snake(name)
camel_to_snake(s) == Lower(ReplaceDoubleUnderscore(SubCamel(s)))

RECURSIVE LStrip(_)
LStrip(s) == IF s # "" /\ Head(s) = "_" THEN LStrip(Tail(s)) ELSE s

RECURSIVE RStrip(_)
RStrip(s) ==
    IF s # "" /\ Char(s, Len(s)) = "_" THEN RStrip(SubSeq(s, 1, Len(s) - 1)) ELSE s

\* s.strip("_")
Strip(s) == RStrip(LStrip(s))

\* normalize_name(stem): the pair (normalized, cleaned)
normalize_name(s) ==
    LET c == Strip(camel_to_snake(SubItemBlockPrefix(SubNonAlnum(s))))
    IN  <<IF ~ StartsWith(c, "ic2_") THEN "ic2_" \o c ELSE c, c>>

\* Bounds: the stems normalize_name is applied to
MaxStemParts == 3

StemParts ==
    {"Block", "block_", "item_", "ITEM", "Macerator", "Copper", "Ingot",
     "ic2_", "-", " ", "2", "_"}

RECURSIVE Concatenations(_, _)
\* the strings made of at most n of the given parts
Concatenations(parts, n) ==
    IF n = 0 THEN {""}
    ELSE LET shorter == Concatenations(parts, n - 1)
         IN  shorter \cup {w \o t : w \in shorter, t \in parts}

\* the file system is not involved
IdleFiles ==
    /\ javaTree = <<>>
    /\ javaDirs = {}
    /\ bedrockTree = <<>>
    /\ bedrockDirs = {}
    /\ counters = NewCounters
    /\ allow_placeholders = FALSE
    /\ skip_bulk = FALSE
    /\ i = 1
    /\ pending = {}
    /\ call = NoCall
    /\ swept = {}
    /\ run = 1
    /\ initTree = <<>>
    /\ firstTree = <<>>

InitNormalize ==
    /\ pc = "normalize_name"
    /\ stem \in Concatenations(StemParts, MaxStemParts)
    /\ normalized = ""
    /\ cleaned = ""
    /\ IdleFiles
    /\ IdleColors

\* normalized, cleaned = normalize_name(stem)
NormalizeName ==
    /\ pc = "normalize_name"
    /\ normalized' = normalize_name(stem)[1]
    /\ cleaned' = normalize_name(stem)[2]
    /\ pc' = "normalize_name returned"
    /\ UNCHANGED <<stem, fsVars, colorVars>>

NextNormalize == NormalizeName

SpecNormalize == InitNormalize /\ [][NextNormalize]_vars

\* C8: normalize_name drops a leading item/block token whatever its case and
\* whether it ends with an underscore or is a camel-case prefix, and applies
\* the ic2_ tag once: "BlockMacerator" is cleaned to "macerator",
\* "item_CopperIngot" to "copper_ingot" with id "ic2_copper_ingot", and ""
\* to "".
C8_NormalizeExamples ==
    pc = "normalize_name returned" =>
        /\ stem = "BlockMacerator" => cleaned = "macerator"
        /\ stem = "item_CopperIngot" =>
             cleaned = "copper_ingot" /\ normalized = "ic2_copper_ingot"
        /\ stem = "" => cleaned = ""

(***************************************************************************)
(* generate_textures.py: get_color                                         *)
(***************************************************************************)
COLORS ==
    [generator |-> <<100, 100, 100>>,
     machine |-> <<120, 120, 120>>,
     cable |-> <<180, 120, 60>>,
     ore |-> <<139, 119, 101>>,
     rubber |-> <<80, 60, 40>>,
     dust |-> <<200, 180, 150>>,
     ingot |-> <<220, 150, 50>>,
     circuit |-> <<50, 150, 50>>,
     armor_nano |-> <<50, 50, 80>>,
     armor_quantum |-> <<100, 200, 255>>,
     reactor |-> <<50, 200, 50>>,
     ui |-> <<60, 60, 60>>]

\* the items of the dict, in insertion order
MATERIAL_COLORS == <<
    <<"copper", <<184, 115, 51>> >>,
    <<"tin", <<180, 180, 180>> >>,
    <<"lead", <<70, 70, 90>> >>,
    <<"uranium", <<50, 200, 50>> >>,
    <<"gold", <<255, 215, 0>> >>,
    <<"iron", <<200, 200, 200>> >>,
    <<"bronze", <<205, 127, 50>> >>,
    <<"coal", <<40, 40, 40>> >>,
    <<"rubber", <<30, 30, 30>> >> >>

DefaultGray == <<128, 128, 128>>

\* the chain of category tests of get_color
CategoryColor(name_lower) ==
    IF \/ Contains(name_lower, "generator") \/ Contains(name_lower, "solar")
       \/ Contains(name_lower, "wind")
      THEN COLORS["generator"]
    ELSE IF \/ Contains(name_lower, "macerator") \/ Contains(name_lower, "furnace")
            \/ Contains(name_lower, "compressor") \/ Contains(name_lower, "extractor")
            \/ Contains(name_lower, "recycler")
      THEN COLORS["machine"]
    ELSE IF Contains(name_lower, "cable") THEN COLORS["cable"]
    ELSE IF Contains(name_lower, "ore") THEN COLORS["ore"]
    ELSE IF Contains(name_lower, "rubber") \/ Contains(name_lower, "resin")
      THEN COLORS["rubber"]
    ELSE IF Contains(name_lower, "dust") THEN COLORS["dust"]
    ELSE IF Contains(name_lower, "ingot") \/ Contains(name_lower, "plate")
      THEN COLORS["ingot"]
    ELSE IF Contains(name_lower, "circuit") THEN COLORS["circuit"]
    ELSE IF Contains(name_lower, "nano") THEN COLORS["armor_nano"]
    ELSE IF Contains(name_lower, "quantum") THEN COLORS["armor_quantum"]
    ELSE IF \/ Contains(name_lower, "reactor") \/ Contains(name_lower, "uranium_cell")
            \/ Contains(name_lower, "heat") \/ Contains(name_lower, "coolant")
      THEN COLORS["reactor"]
    ELSE DefaultGray

RECURSIVE MaterialLoop(_, _)
\* for material, color in MATERIAL_COLORS.items(), from item k on; then the categories
MaterialLoop(name_lower, k) ==
    IF k > Len(MATERIAL_COLORS) THEN CategoryColor(name_lower)
    ELSE IF Contains(name_lower, MATERIAL_COLORS[k][1]) THEN MATERIAL_COLORS[k][2]
    ELSE MaterialLoop(name_lower, k + 1)

\* get_color with the category tests run before the material loop
get_color_categories_first(n) ==
    IF CategoryColor(Lower(n)) # DefaultGray THEN CategoryColor(Lower(n))
    ELSE MaterialLoop(Lower(n), 1)

\* get_color(name)
get_color(n) == MaterialLoop(Lower(n), 1)

\* Bounds: the names get_color is applied to
MaxNameParts == 3

NameParts ==
    {"copper", "Copper", "tin", "rubber", "uranium_cell", "plating",
     "ore", "resin", "generator", "plate", "nano", "_"}

InitColor ==
    /\ pc = "get_color"
    /\ name \in Concatenations(NameParts, MaxNameParts)
    /\ color = <<>>
    /\ IdleFiles
    /\ IdleNames

\* color = get_color(name)
GetColor ==
    /\ pc = "get_color"
    /\ color' = get_color(name)
    /\ pc' = "get_color returned"
    /\ UNCHANGED <<name, fsVars, nameVars>>

NextColor == GetColor

SpecColor == InitColor /\ [][NextColor]_vars

\* the category tests in the order get_color makes them: keywords, key of COLORS
CategoryChecks == <<
    <<{"generator", "solar", "wind"}, "generator">>,
    <<{"macerator", "furnace", "compressor", "extractor", "recycler"}, "machine">>,
    <<{"cable"}, "cable">>,
    <<{"ore"}, "ore">>,
    <<{"rubber", "resin"}, "rubber">>,
    <<{"dust"}, "dust">>,
    <<{"ingot", "plate"}, "ingot">>,
    <<{"circuit"}, "circuit">>,
    <<{"nano"}, "armor_nano">>,
    <<{"quantum"}, "armor_quantum">>,
    <<{"reactor", "uranium_cell", "heat", "coolant"}, "reactor">> >>

\* the material keywords / category tests that match a lowercased name
MaterialHits(name_lower) ==
    {k \in 1..Len(MATERIAL_COLORS) : Contains(name_lower, MATERIAL_COLORS[k][1])}

CategoryHits(name_lower) ==
    {k \in 1..Len(CategoryChecks) : \E w \in CategoryChecks[k][1] : Contains(name_lower, w)}

\* C9: get_color returns the colour of the first material keyword, in table
\* order, that the lowercased name contains, whatever category keywords it
\* contains; the colour of the first matching category test only when no
\* material keyword matches; the default gray only when nothing matches.
C9_MaterialBeforeCategory ==
    pc = "get_color returned" =>
        LET name_lower == Lower(name)
            materials == MaterialHits(name_lower)
            categories == CategoryHits(name_lower)
        IN  /\ materials # {} => color = MATERIAL_COLORS[Min(materials)][2]
            /\ (materials = {} /\ categories # {}) =>
                   color = COLORS[CategoryChecks[Min(categories)][2]]
            /\ (materials = {} /\ categories = {}) => color = <<128, 128, 128>>

\* C9 witness: a name with "copper" and "ore" got the copper colour
C9_Witness ==
    /\ pc = "get_color returned"
    /\ Contains(Lower(name), "copper")
    /\ Contains(Lower(name), "ore")
    /\ name # Lower(name)
    /\ color = <<184, 115, 51>>
    /\ color # COLORS["ore"]

(***************************************************************************)
(* Properties of the counters and of the traversal order                   *)
(***************************************************************************)
\* the sum of the five counters
CountersTotal ==
    counters.mapped + counters.placeholders + counters.skipped_existing
        + counters.missing_no_placeholder + counters.bulk

\* the files of machine_dir the sweep copies: PNG files whose name holds a wanted key
WantedPngs ==
    {f \in DOMAIN javaTree :
        /\ StartsWith(f, machine_dir \o "/")
        /\ Slashes(SubSeq(f, Len(machine_dir) + 2, Len(f))) = {}
        /\ EndsWith(f, ".png")
        /\ \E k \in 1..Len(wanted) :
               Contains(SubSeq(f, Len(machine_dir) + 2, Len(f)), wanted[k])}

\* the PNG files below java_root / sub
PngsBelow(sub) ==
    {f \in DOMAIN javaTree :
        StartsWith(f, java_root \o "/" \o sub \o "/") /\ EndsWith(f, ".png")}

\* no counter decreases over the step
CountersGrow ==
    \A f \in DOMAIN counters : counters'[f] >= counters[f]

\* the counters of a finished run account for every entry and every file once
Accounted ==
    /\ CountersTotal =
           Len(RAW_TEXTURE_MAPPING) + Len(RAW_ITEM_MAPPING) + Cardinality(WantedPngs)
             + (IF skip_bulk THEN 0
                ELSE Cardinality(PngsBelow("blocks")) + Cardinality(PngsBelow("items")))
    /\ allow_placeholders => counters.missing_no_placeholder = 0
    /\ ~ allow_placeholders => counters.placeholders = 0

\* C11: every curated entry and every discovered bulk file produces exactly
\* one outcome and counters only grow: when extract_textures ends the five
\* counters add up to the curated texture and item entries, plus the files
\* the machine-variant sweep copied, plus (unless skip_bulk) the PNG files
\* under blocks/ and items/; missing_no_placeholder stays 0 with
\* allow_placeholders and placeholders stays 0 without it.
C11_OutcomeAccounting ==
    [][CountersGrow /\ (pc' = "done" => Accounted')]_vars

\* C11 witness: a finished run with the bulk passes that swept a machine
\* file, copied a file in bulk, skipped an existing one and wrote placeholders
C11_Witness ==
    /\ pc = "done"
    /\ ~ skip_bulk
    /\ allow_placeholders
    /\ swept # {}
    /\ counters.bulk > 0
    /\ counters.skipped_existing > 0
    /\ counters.placeholders > 0
    /\ counters.mapped > Cardinality(swept)

RECURSIVE MappingsInOrder(_, _, _)
\* the loop over a list of mappings from row k on, started in st
MappingsInOrder(mappings, k, st) ==
    IF k > Len(mappings) THEN st
    ELSE MappingsInOrder(mappings, k + 1,
             copy_with_placeholder(mappings[k], javaTree, st.tree, st.dirs,
                                   st.counters, allow_placeholders))

RECURSIVE SweepInFixedOrder(_, _)
\* the loop of copy_machine_variants over files, taken in one fixed order
SweepInFixedOrder(files, st) ==
    IF files = {} THEN st
    ELSE LET f == CHOOSE g \in files : TRUE
         IN  SweepInFixedOrder(files \ {f},
                 copy_machine_variant(f, javaTree, st.tree, st.dirs, st.counters))

RECURSIVE BulkInFixedOrder(_, _, _, _)
\* the loop of bulk_copy_pngs over files, taken in one fixed order
BulkInFixedOrder(files, source_root, target_root, st) ==
    IF files = {} THEN st
    ELSE LET f == CHOOSE g \in files : TRUE
         IN  BulkInFixedOrder(files \ {f}, source_root, target_root,
                 bulk_copy_png(f, source_root, target_root, javaTree, st.tree,
                               st.dirs, st.counters))

\* the tree and counters extract_textures ends with when each directory
\* enumeration yields its files in one fixed order
FixedOrderRun ==
    LET start == [tree |-> initTree,
                  dirs |-> DirsOf(DOMAIN initTree, bedrock_root),
                  counters |-> NewCounters]
        textures == MappingsInOrder(texture_mappings, 1, start)
        variants == SweepInFixedOrder(
                        IF machine_dir \in javaDirs THEN Glob(javaTree, machine_dir)
                                                   ELSE {},
                        textures)
        items == MappingsInOrder(item_mappings, 1, variants)
        blocks == BulkInFixedOrder(
                      IF Join(java_root, "blocks") \in javaDirs
                        THEN RGlob(javaTree, Join(java_root, "blocks")) ELSE {},
                      Join(java_root, "blocks"), Join(bedrock_root, "blocks"), items)
        bulk == BulkInFixedOrder(
                    IF Join(java_root, "items") \in javaDirs
                      THEN RGlob(javaTree, Join(java_root, "items")) ELSE {},
                    Join(java_root, "items"), Join(bedrock_root, "items"), blocks)
    IN  IF skip_bulk THEN items ELSE bulk

\* C12: for fixed trees and flags the final destination tree and the final
\* counters are the same whatever order glob and rglob yield their files in:
\* every run ends in the state of the run that takes them in one fixed order.
C12_OrderIndependent ==
    (pc = "done" /\ run = 1) =>
        /\ bedrockTree = FixedOrderRun.tree
        /\ counters = FixedOrderRun.counters

\* C12 witness: a finished run whose sweep and whose bulk pass over blocks/
\* each had two files to take, in either order
C12_Witness ==
    /\ pc = "done"
    /\ ~ skip_bulk
    /\ Cardinality(swept) = 2
    /\ Cardinality(PngsBelow("blocks")) = 2
    /\ counters.bulk = 2

====
